---- MODULE Spec2Model ----
(***************************************************************************)
(* Model of analysismgr.py: main() and start_definition_processing(), the  *)
(* dispatch loop that spawns one Processor daemon per definition, scans    *)
(* the list of raw records, constructs a Definition for each, puts it on   *)
(* the processing queue and joins the queue.  The Processor thread and the *)
(* Definition classes live in jobsmgr (not among the sources); they are    *)
(* modelled from sections 3, 4.1 and 4.3 of the specification.             *)
(***************************************************************************)
EXTENDS Integers, Sequences, FiniteSets, TLC

\* largest number of records (alerts and reports together) in the store
MaxRecords == 3

\* main() calls start_definition_processing twice (alerts, then reports)
NumCalls == 2

\* an alert pipeline that lost its "prepare alerts" stage
ALERT_TASKS_Short ==
    <<"pull data", "process alerts", "persist alerts", "show results">>

\* pipeline to be used for alerts
ALERT_TASKS ==
    <<"pull data", "process alerts", "persist alerts", "prepare alerts", "show results">>

\* pipeline to be used for reports
REPORT_TASKS ==
    <<"process benchmarks", "pull results", "analyze results", "prepare report", "show results">>

\* positional arguments of AlertDefinition(...), read as params[...] by the caller
ALERT_FIELDS == {"transform", "comparator", "epoch_type", "threads", "epoch_count"}

\* positional argument of ReportDefinition(...)
REPORT_FIELDS == {"homogeneity"}

Calls == 1..NumCalls
AlertIds == 1..MaxRecords
ReportIds == (MaxRecords + 1)..(2 * MaxRecords)
RecIds == AlertIds \cup ReportIds

TypeOf(r) == IF r \in AlertIds THEN "alert" ELSE "report"

VARIABLES
    definitions,       \* definitions[c]: the list main passes to call c
    params,            \* the raw records (dicts), by record id
    call,              \* which call of start_definition_processing main is in
    pc,                \* position of the main thread inside that call
    definitions_list,  \* the pending list (line 111)
    iter,              \* index of the list iterator of the for loop (line 114)
    daemons,           \* daemons[c][i]: the Definition Processor i of call c holds, 0 if none
    queue,             \* queue[c]: items of definitions_processing_queue of call c
    unfinished,        \* queue[c].unfinished_tasks
    objs,              \* every Definition object constructed so far
    puts               \* puts[c]: record ids in the order call c put them on its queue

vars == <<definitions, params, call, pc, definitions_list, iter, daemons, queue,
          unfinished, objs, puts>>

----------------------------------------------------------------------------
(* Sequences *)

Range(s) == {s[i] : i \in 1..Len(s)}

\* a remove that leaves the list as it is
RemoveNone(s, x) == s

\* list.remove(x): drops the first element equal to x
Remove(s, x) ==
    LET k == CHOOSE i \in 1..Len(s) : s[i] = x /\ \A j \in 1..(i - 1) : s[j] # x
    IN  SubSeq(s, 1, k - 1) \o SubSeq(s, k + 1, Len(s))

IsPrefix(s, t) == Len(s) <= Len(t) /\ \A i \in 1..Len(s) : s[i] = t[i]

----------------------------------------------------------------------------
(* Records and Definition objects *)

RequiredFields(type) == IF type = "alert" THEN ALERT_FIELDS ELSE REPORT_FIELDS

\* the raw record a store returns: its fields, and no "pipeline" key yet
RawRecord(r, missing) ==
    [name |-> r, type |-> TypeOf(r),
     fields |-> RequiredFields(TypeOf(r)) \ missing,
     pipeline |-> <<>>]

\* the tasks appended to the record's pipeline instead of replacing it
AssignPipelineDoubled(p) ==
    [p EXCEPT !.pipeline = @ \o (IF p.type = "alert" THEN ALERT_TASKS ELSE REPORT_TASKS)]

\* the two kinds given each other's tasks
AssignPipelineSwapped(p) ==
    [p EXCEPT !.pipeline = IF p.type = "alert" THEN REPORT_TASKS ELSE ALERT_TASKS]

\* every record given the alert tasks (the elif branch lost)
AssignPipelineAlertOnly(p) == [p EXCEPT !.pipeline = ALERT_TASKS]

\* params["pipeline"] = ALERT_TASKS  /  params["pipeline"] = REPORT_TASKS
AssignPipeline(p) ==
    [p EXCEPT !.pipeline = IF p.type = "alert" THEN ALERT_TASKS ELSE REPORT_TASKS]

\* params["transform"], ... raise KeyError when the record lacks the key
HasRequired(p) == RequiredFields(p.type) \subseteq p.fields

\* AlertDefinition(...) / ReportDefinition(...): a fresh object, not started
NewDefinition(p, c) ==
    [rec |-> p.name, call |-> c, kind |-> p.type, pipeline |-> p.pipeline,
     state |-> "not started", currentStageIndex |-> 0, invoked |-> <<>>,
     done |-> 0]

Terminal(d) == d.state \in {"completed", "failed"}

----------------------------------------------------------------------------
(* Queue.Queue *)

\* an item that lands on the queue twice for one put
QueuePutTwice(c, d, r) ==
    /\ queue' = [queue EXCEPT ![c] = Append(Append(@, d), d)]
    /\ unfinished' = [unfinished EXCEPT ![c] = @ + 2]
    /\ puts' = [puts EXCEPT ![c] = Append(@, r)]

\* a put that loses the item
QueuePutDropped(c, d, r) == UNCHANGED <<queue, unfinished, puts>>

\* a queue of room for one item: put blocks while the item before it is untaken
QueuePutBounded(c, d, r) ==
    /\ queue[c] = <<>>
    /\ queue' = [queue EXCEPT ![c] = Append(@, d)]
    /\ unfinished' = [unfinished EXCEPT ![c] = @ + 1]
    /\ puts' = [puts EXCEPT ![c] = Append(@, r)]

\* put(item); puts logs the pushes per record, as an instrumented queue would
QueuePut(c, d, r) ==
    /\ queue' = [queue EXCEPT ![c] = Append(@, d)]
    /\ unfinished' = [unfinished EXCEPT ![c] = @ + 1]
    /\ puts' = [puts EXCEPT ![c] = Append(@, r)]

\* a join that only waits for the queue to be empty
QueueJoinedWhenEmpty(c) == queue[c] = <<>>

\* join() blocks until every item put has been marked done (unfinished_tasks = 0)
QueueJoined(c) == unfinished[c] = 0

----------------------------------------------------------------------------
(* Initial states *)

Batch(ids, n) == [i \in 1..n |-> CHOOSE r \in ids : Cardinality({q \in ids : q < r}) = i - 1]

\* what a record may lack: nothing, or one of the fields the constructor reads
MissingChoices(r) ==
    IF TypeOf(r) = "alert" THEN {{}, {"transform"}}
    ELSE {{}, {"homogeneity"}}

InitCommon ==
    /\ call = 1
    /\ pc = "spawn"
    /\ definitions_list = <<>>
    /\ iter = 0
    /\ daemons = [c \in Calls |-> <<>>]
    /\ queue = [c \in Calls |-> <<>>]
    /\ unfinished = [c \in Calls |-> 0]
    /\ objs = <<>>
    /\ puts = [c \in Calls |-> <<>>]

\* main(): the alerts of the store, then the reports of the store
Init ==
    /\ \E na \in 0..MaxRecords, nr \in 0..MaxRecords :
          /\ na + nr <= MaxRecords
          /\ definitions = <<Batch(AlertIds, na), Batch(ReportIds, nr)>>
    /\ \E m \in [RecIds -> UNION {MissingChoices(r) : r \in RecIds}] :
          /\ \A r \in RecIds :
                IF r \in Range(definitions[1]) \cup Range(definitions[2])
                THEN m[r] \in MissingChoices(r) ELSE m[r] = {}
          /\ params = [r \in RecIds |-> RawRecord(r, m[r])]
    /\ InitCommon

----------------------------------------------------------------------------
(* start_definition_processing: the main thread *)

\* a spawn loop that stops one Processor short
AllDaemonsStartedOneShort == Len(daemons[call]) >= Len(definitions[call]) - 1

\* line 104: for i in range(len(definitions)) has run len(definitions) times
AllDaemonsStarted == Len(daemons[call]) >= Len(definitions[call])

\* lines 104-108: one Processor per definition, started before anything is put
StartDaemon ==
    /\ pc = "spawn"
    /\ ~AllDaemonsStarted
    /\ daemons' = [daemons EXCEPT ![call] = Append(@, 0)]
    /\ UNCHANGED <<definitions, params, call, pc, definitions_list, iter, queue,
                   unfinished, objs, puts>>

\* lines 110-111: definitions_list is a copy of the caller's list
CopyList ==
    /\ pc = "spawn"
    /\ AllDaemonsStarted
    /\ definitions_list' = definitions[call]
    /\ pc' = "while"
    /\ UNCHANGED <<definitions, params, call, iter, daemons, queue, unfinished,
                   objs, puts>>

\* line 113: while definitions_list; a true test starts a new for loop
WhileTest ==
    /\ pc = "while"
    /\ IF definitions_list # <<>>
       THEN pc' = "for" /\ iter' = 0
       ELSE pc' = "join" /\ iter' = iter
    /\ UNCHANGED <<definitions, params, call, definitions_list, daemons, queue,
                   unfinished, objs, puts>>

\* lines 114-139: one iteration of the for loop over the list being edited
ForBody ==
    /\ pc = "for"
    /\ iter < Len(definitions_list)
    /\ LET r == definitions_list[iter + 1]
           p == AssignPipeline(params[r])
       IN  /\ iter' = iter + 1
           /\ params' = [params EXCEPT ![r] = p]
           /\ IF ~HasRequired(p)
              THEN /\ pc' = "raised"
                   /\ UNCHANGED <<definitions_list, queue, unfinished, objs, puts>>
              ELSE LET definition == NewDefinition(p, call)
                   IN  IF definition.state = "not started"
                       THEN /\ objs' = Append(objs, definition)
                            /\ QueuePut(call, Len(objs) + 1, r)
                            /\ definitions_list' = Remove(definitions_list, r)
                            /\ pc' = pc
                       ELSE UNCHANGED <<pc, definitions_list, queue, unfinished,
                                        objs, puts>>
    /\ UNCHANGED <<definitions, call, daemons>>

\* a scan that makes one pass only (if in place of while)
ForEndToJoin ==
    /\ pc = "for"
    /\ iter >= Len(definitions_list)
    /\ pc' = "join"
    /\ UNCHANGED <<definitions, params, call, definitions_list, iter, daemons,
                   queue, unfinished, objs, puts>>

\* line 114: the iterator is exhausted, back to the while test
ForEnd ==
    /\ pc = "for"
    /\ iter >= Len(definitions_list)
    /\ pc' = "while"
    /\ UNCHANGED <<definitions, params, call, definitions_list, iter, daemons,
                   queue, unfinished, objs, puts>>

\* a join after which the main thread marks every Definition completed
JoinMarking ==
    /\ pc = "join"
    /\ QueueJoined(call)
    /\ pc' = "returned"
    /\ objs' = [d \in 1..Len(objs) |-> [objs[d] EXCEPT !.state = "completed"]]
    /\ UNCHANGED <<definitions, params, call, definitions_list, iter, daemons,
                   queue, unfinished, puts>>

\* lines 141-145: Queue.join() returns once unfinished_tasks is 0
Join ==
    /\ pc = "join"
    /\ QueueJoined(call)
    /\ pc' = "returned"
    /\ UNCHANGED <<definitions, params, call, definitions_list, iter, daemons,
                   queue, unfinished, objs, puts>>

\* a main that starts the second call without waiting for the join of the first
MainNextEarly ==
    /\ pc \in {"join", "returned"}
    /\ call < NumCalls
    /\ call' = call + 1
    /\ pc' = "spawn"
    /\ UNCHANGED <<definitions, params, definitions_list, iter, daemons, queue,
                   unfinished, objs, puts>>

\* main(), lines 66-70: the second call follows the return of the first
MainNext ==
    /\ pc = "returned"
    /\ call < NumCalls
    /\ call' = call + 1
    /\ pc' = "spawn"
    /\ UNCHANGED <<definitions, params, definitions_list, iter, daemons, queue,
                   unfinished, objs, puts>>

----------------------------------------------------------------------------
(* Processor (jobsmgr): the worker threads *)

Held(c, i) == daemons[c][i]

\* blocking take of one Definition; the Definition starts running.  The
\* Processors of a call are interchangeable threads: the idle one of least
\* index stands for whichever idle one the scheduler wakes.
Get(c, i) ==
    /\ i \in 1..Len(daemons[c])
    /\ Held(c, i) = 0
    /\ \A j \in 1..(i - 1) : Held(c, j) # 0
    /\ queue[c] # <<>>
    /\ daemons' = [daemons EXCEPT ![c][i] = Head(queue[c])]
    /\ queue' = [queue EXCEPT ![c] = Tail(@)]
    /\ objs' = [objs EXCEPT ![Head(queue[c])].state = "running"]
    /\ UNCHANGED <<definitions, params, call, pc, definitions_list, iter,
                   unfinished, puts>>

\* one call of the Stage Executor on the next stage of the held Definition;
\* outcomes is what the executor may answer (ok or not)
RunStageWith(c, i, outcomes) ==
    /\ i \in 1..Len(daemons[c])
    /\ Held(c, i) # 0
    /\ LET d == Held(c, i)
           o == objs[d]
       IN  /\ o.state = "running"
           /\ o.currentStageIndex < Len(o.pipeline)
           /\ \E ok \in outcomes :
                 objs' = [objs EXCEPT ![d] =
                    [o EXCEPT
                       !.invoked = Append(@, o.pipeline[o.currentStageIndex + 1]),
                       !.currentStageIndex = IF ok THEN @ + 1 ELSE @,
                       !.state = IF ~ok THEN "failed"
                                 ELSE IF o.currentStageIndex + 1 = Len(o.pipeline)
                                      THEN "completed" ELSE "running"]]
    /\ UNCHANGED <<definitions, params, call, pc, definitions_list, iter, daemons,
                   queue, unfinished, puts>>

RunStage(c, i) == RunStageWith(c, i, BOOLEAN)

\* a Processor that puts a failed Definition back on the queue
TaskDoneRequeue(c, i) ==
    /\ i \in 1..Len(daemons[c])
    /\ Held(c, i) # 0
    /\ Terminal(objs[Held(c, i)])
    /\ IF objs[Held(c, i)].state = "failed"
       THEN /\ queue' = [queue EXCEPT ![c] = Append(@, Held(c, i))]
            /\ unfinished' = unfinished
       ELSE /\ queue' = queue
            /\ unfinished' = [unfinished EXCEPT ![c] = @ - 1]
    /\ objs' = [objs EXCEPT ![Held(c, i)].done = @ + 1]
    /\ daemons' = [daemons EXCEPT ![c][i] = 0]
    /\ UNCHANGED <<definitions, params, call, pc, definitions_list, iter, puts>>

\* queue.task_done() for the held Definition, then back to the take
TaskDone(c, i) ==
    /\ i \in 1..Len(daemons[c])
    /\ Held(c, i) # 0
    /\ Terminal(objs[Held(c, i)])
    /\ unfinished' = [unfinished EXCEPT ![c] = @ - 1]
    /\ objs' = [objs EXCEPT ![Held(c, i)].done = @ + 1]
    /\ daemons' = [daemons EXCEPT ![c][i] = 0]
    /\ UNCHANGED <<definitions, params, call, pc, definitions_list, iter, queue,
                   puts>>

Worker(c, i) == Get(c, i) \/ RunStage(c, i) \/ TaskDone(c, i)

Coordinator == StartDaemon \/ CopyList \/ WhileTest \/ ForBody \/ ForEnd \/ Join \/ MainNext

Next ==
    \/ StartDaemon
    \/ CopyList
    \/ WhileTest
    \/ ForBody
    \/ ForEnd
    \/ Join
    \/ MainNext
    \/ \E c \in Calls, i \in 1..MaxRecords : Get(c, i)
    \/ \E c \in Calls, i \in 1..MaxRecords : RunStage(c, i)
    \/ \E c \in Calls, i \in 1..MaxRecords : TaskDone(c, i)

Spec == Init /\ [][Next]_vars

\* every thread that can take a step eventually takes one
FairSpec ==
    /\ Spec
    /\ WF_vars(Coordinator)
    /\ \A c \in Calls, i \in 1..MaxRecords : WF_vars(Worker(c, i))

\* the main thread alone is scheduled fairly: the Processors may never run
CoordFairSpec == Spec /\ WF_vars(Coordinator)

----------------------------------------------------------------------------
(* The same batch passed to start_definition_processing twice, with a Stage *)
(* Executor that always succeeds                                            *)

RunStageOk(c, i) == RunStageWith(c, i, {TRUE})

InitRerun ==
    /\ \E n \in 1..MaxRecords, ids \in {AlertIds, ReportIds} :
          definitions = <<Batch(ids, n), Batch(ids, n)>>
    /\ params = [r \in RecIds |-> RawRecord(r, {})]
    /\ InitCommon

NextRerun ==
    \/ StartDaemon
    \/ CopyList
    \/ WhileTest
    \/ ForBody
    \/ ForEnd
    \/ Join
    \/ MainNext
    \/ \E c \in Calls, i \in 1..MaxRecords : Get(c, i)
    \/ \E c \in Calls, i \in 1..MaxRecords : RunStageOk(c, i)
    \/ \E c \in Calls, i \in 1..MaxRecords : TaskDone(c, i)

SpecRerun == InitRerun /\ [][NextRerun]_vars

----------------------------------------------------------------------------
(* Vocabulary of the properties *)

ObjIds == 1..Len(objs)

\* the Definition objects call c constructed for record r
ObjsOf(c, r) == {d \in ObjIds : objs[d].call = c /\ objs[d].rec = r}

BatchRecs(c) == Range(definitions[c])

\* call c has returned to main
Returned(c) == call > c \/ (call = c /\ pc = "returned")

\* every record of the batch of call c has the fields its constructor reads
WellFormed(c) == \A r \in BatchRecs(c) : HasRequired(params[r])

\* every record of the batch of call c stands for a Definition in a terminal state
AllTerminal(c) ==
    \A r \in BatchRecs(c) :
        /\ ObjsOf(c, r) # {}
        /\ \A d \in ObjsOf(c, r) : Terminal(objs[d])

DeclaredPipeline(kind) == IF kind = "alert" THEN ALERT_TASKS ELSE REPORT_TASKS

\* the Processors started so far, as <<call, index>>
Workers == {w \in Calls \X (1..MaxRecords) : w[2] <= Len(daemons[w[1]])}

\* the scan of call c is over: the main thread is at the join or beyond
ScanDone(c) == call > c \/ (call = c /\ pc \in {"join", "returned"})

\* the moves of the Definition state machine (a = b: no move)
LegalStep(a, b) ==
    \/ a = b
    \/ a = "not started" /\ b = "running"
    \/ a = "running" /\ b \in {"completed", "failed"}

\* a stage of a Definition of call c has reported failure
StageFailedIn(c) == \E d \in ObjIds : objs[d].call = c /\ objs[d].state = "failed"


----------------------------------------------------------------------------
(* Properties *)

\* C1: start_definition_processing returns only after every Definition of its
\* batch is completed or failed (none is not started or running at the
\* return), and for a batch of well-formed records, under fair scheduling,
\* the call does return.
C1_ReturnsOnlyAfterAllTerminal ==
    /\ [](\A c \in Calls : Returned(c) => AllTerminal(c))
    /\ \A c \in Calls : [](call = c /\ WellFormed(c) => <>Returned(c))

\* a call has returned with a batch of three, one failed and one completed
C1_Witness ==
    /\ pc = "returned"
    /\ Len(definitions[call]) = 3
    /\ \E d, e \in ObjIds :
          /\ objs[d].call = call /\ objs[d].state = "failed"
          /\ objs[e].call = call /\ objs[e].state = "completed"

\* C2: within one call no record is put on the queue more than once, however
\* many passes the scan needs and however the Processors interleave with it.
C2_EnqueueOnce ==
    \A c \in Calls : \A i, j \in 1..Len(puts[c]) : puts[c][i] = puts[c][j] => i = j

\* the scan needed a second pass (the for loop skipped record 2), and a
\* Processor was already running when the last record was put
C2_Witness ==
    /\ puts[1] = <<1, 3, 2>>
    /\ pc = "for"
    /\ \E d \in ObjIds : objs[d].rec = 1 /\ objs[d].state # "not started"
    /\ \E d \in ObjIds : objs[d].rec = 2 /\ objs[d].state = "not started"

\* C3: the stages invoked on a Definition are a prefix of the pipeline declared
\* for its kind (declared order, each stage at most once), and once a stage
\* has reported failure no further stage of that Definition is invoked.
C3_StagesInPipelineOrder ==
    /\ [](\A d \in ObjIds :
            /\ IsPrefix(objs[d].invoked, DeclaredPipeline(objs[d].kind))
            /\ objs[d].state = "failed" =>
                  Len(objs[d].invoked) = objs[d].currentStageIndex + 1)
    /\ [][\A d \in ObjIds :
            /\ Len(objs'[d].invoked) \in {Len(objs[d].invoked), Len(objs[d].invoked) + 1}
            /\ objs[d].state = "failed" => objs'[d].invoked = objs[d].invoked]_vars

\* a report failed at its third stage after two successes; its Processor is free again
C3_Witness ==
    \E d \in ObjIds :
        /\ objs[d].state = "failed"
        /\ objs[d].invoked = <<"process benchmarks", "pull results", "analyze results">>
        /\ objs[d].done = 1

\* C4: a Definition's state only moves not started -> running -> completed or
\* failed: never backwards, never out of a terminal state, never from not
\* started straight to a terminal state; and no record gets a second
\* Definition in a run (a failed one is not retried).
C4_StateMonotonic ==
    [][/\ Len(objs') >= Len(objs)
       /\ \A d \in 1..Len(objs') :
             IF d <= Len(objs)
             THEN LegalStep(objs[d].state, objs'[d].state)
             ELSE /\ objs'[d].state = "not started"
                  /\ \A e \in ObjIds : objs[e].rec # objs'[d].rec]_vars

\* both calls ran: a failed alert of the first call stays failed while a
\* report of the second call completes
C4_Witness ==
    /\ call = 2
    /\ \E d, e \in ObjIds :
          /\ objs[d].call = 1 /\ objs[d].state = "failed"
          /\ objs[e].call = 2 /\ objs[e].state = "completed"

\* C5: at every moment at most one Processor holds any given Definition.
C5_OneWorkerPerDefinition ==
    \A v, w \in Workers :
        Held(v[1], v[2]) # 0 /\ Held(v[1], v[2]) = Held(w[1], w[2]) => v = w

\* three Processors of one call each hold a running Definition at once
C5_Witness ==
    /\ Len(daemons[1]) = 3
    /\ \A i \in 1..3 : Held(1, i) # 0 /\ objs[Held(1, i)].state = "running"

C7_WorkerTouchesOnlyHeld ==
    [][\A w \in Workers :
          Worker(w[1], w[2]) =>
              LET d == IF Held(w[1], w[2]) # 0 THEN Held(w[1], w[2])
                       ELSE daemons'[w[1]][w[2]]
              IN  /\ Len(objs') = Len(objs)
                  /\ \A e \in ObjIds : e # d => objs'[e] = objs[e]
                  /\ objs'[d].rec = objs[d].rec /\ objs'[d].pipeline = objs[d].pipeline
                  /\ params' = params
                  /\ \A c \in Calls : Len(queue'[c]) <= Len(queue[c])
                  /\ \A v \in Workers : v # w => daemons'[v[1]][v[2]] = Held(v[1], v[2])]_vars

\* one Definition failed while another of the same call is still running,
\* untouched, at its second stage
C7_Witness ==
    \E d, e \in ObjIds :
        /\ objs[d].call = objs[e].call
        /\ objs[d].state = "failed" /\ objs[d].done = 0
        /\ objs[e].state = "running" /\ objs[e].currentStageIndex = 1

\* C8: a completed Definition has currentStageIndex = len(pipeline) = 5 after
\* 5 executor calls; a Definition whose stage at 0-based position k failed is
\* failed with currentStageIndex = k after exactly k + 1 executor calls (k = 2
\* when "analyze results" fails).
C8_IndexCountsSuccesses ==
    \A d \in ObjIds :
        /\ objs[d].state = "completed" =>
              /\ objs[d].currentStageIndex = Len(objs[d].pipeline)
              /\ objs[d].currentStageIndex = 5
              /\ Len(objs[d].invoked) = 5
        /\ objs[d].state = "failed" =>
              /\ objs[d].currentStageIndex < Len(objs[d].pipeline)
              /\ Len(objs[d].invoked) = objs[d].currentStageIndex + 1
              /\ objs[d].invoked[Len(objs[d].invoked)]
                    = objs[d].pipeline[objs[d].currentStageIndex + 1]
              /\ objs[d].invoked[Len(objs[d].invoked)] = "analyze results"
                    => objs[d].currentStageIndex = 2

\* an alert completed and a report failed at "analyze results"
C8_Witness ==
    /\ \E d \in ObjIds : objs[d].kind = "alert" /\ objs[d].state = "completed"
    /\ \E d \in ObjIds :
          /\ objs[d].state = "failed"
          /\ objs[d].invoked[Len(objs[d].invoked)] = "analyze results"

\* C9: when the same batch is dispatched twice and every stage succeeds, each
\* record ends completed in both calls, with the same final currentStageIndex.
C9_RerunIdempotent ==
    Returned(2) =>
        \A r \in BatchRecs(1) :
            /\ ObjsOf(1, r) # {} /\ ObjsOf(2, r) # {}
            /\ \A d \in ObjsOf(1, r), e \in ObjsOf(2, r) :
                  /\ objs[d].state = "completed" /\ objs[e].state = "completed"
                  /\ objs[d].currentStageIndex = objs[e].currentStageIndex

\* the second dispatch of a batch of two returned
C9_Witness ==
    /\ Returned(2)
    /\ Len(definitions[1]) = 2 /\ definitions[2] = definitions[1]
    /\ Cardinality({d \in ObjIds : objs[d].state = "completed"}) = 4

\* C10: when a record lacking a required field makes the call raise, no
\* Processor of that call has been started and no Definition of that batch
\* has been put on the queue.
C10_RejectedBeforeDispatch ==
    pc = "raised" => daemons[call] = <<>> /\ puts[call] = <<>>

\* C11: a Processor signals task_done exactly once for every Definition it
\* took, completed or failed alike, and only once that Definition is terminal
\* (a terminal Definition not yet signalled is still held by its Processor);
\* so unfinished_tasks counts the Definitions put and not yet signalled, and
\* the join is released exactly when every Definition put has been signalled,
\* each of them terminal.
C11_TaskDoneOncePerDefinition ==
    /\ \A d \in ObjIds :
          /\ objs[d].done \in {0, 1}
          /\ objs[d].done = 1 => Terminal(objs[d])
          /\ objs[d].done = 1 => \A w \in Workers : Held(w[1], w[2]) # d
          /\ Terminal(objs[d]) /\ objs[d].done = 0 =>
                \E w \in Workers : Held(w[1], w[2]) = d
    /\ \A c \in Calls :
          /\ unfinished[c] = Cardinality({d \in ObjIds : objs[d].call = c /\ objs[d].done = 0})
          /\ QueueJoined(c) <=>
                \A d \in ObjIds : objs[d].call = c => Terminal(objs[d]) /\ objs[d].done = 1

\* the join of a call is released after a failed and a completed Definition
\* were each signalled once
C11_Witness ==
    /\ pc = "join"
    /\ QueueJoined(call)
    /\ \E d, e \in ObjIds :
          /\ objs[d].call = call /\ objs[d].state = "failed" /\ objs[d].done = 1
          /\ objs[e].call = call /\ objs[e].state = "completed" /\ objs[e].done = 1

\* C12: a call starts exactly len(batch) Processors, never more, all of them
\* before its first put and all taking from that call's queue only; for an
\* empty batch it starts none, puts nothing and goes straight to a join that
\* is already released.
C12_OneWorkerPerRecord ==
    \A c \in Calls :
        /\ Len(daemons[c]) <= Len(definitions[c])
        /\ (call > c \/ (call = c /\ pc # "spawn")) =>
              Len(daemons[c]) = Len(definitions[c])
        /\ puts[c] # <<>> => Len(daemons[c]) = Len(definitions[c])
        /\ \A i \in 1..Len(daemons[c]) : Held(c, i) # 0 => objs[Held(c, i)].call = c
        /\ definitions[c] = <<>> =>
              /\ daemons[c] = <<>> /\ puts[c] = <<>> /\ unfinished[c] = 0
              /\ call = c => pc \in {"spawn", "while", "join", "returned"}

\* three Processors were started before the first of three records was put;
\* the other call had an empty batch
C12_Witness ==
    /\ \E c \in Calls :
          Len(definitions[c]) = 3 /\ Len(daemons[c]) = 3 /\ Len(puts[c]) = 1
    /\ Returned(1) /\ definitions[1] = <<>>

\* C13: the main thread reaches the join only with an empty pending list, and
\* by then every record of the batch has been put exactly once (as many puts
\* as records, no record twice), although the for loop runs over the list it
\* removes from.
C13_JoinOnlyWhenAllPut ==
    pc \in {"join", "returned"} =>
        /\ definitions_list = <<>>
        /\ Len(puts[call]) = Len(definitions[call])
        /\ Range(puts[call]) = BatchRecs(call)

\* the join is reached after a scan of three records that needed two passes
C13_Witness ==
    /\ pc = "join"
    /\ Len(definitions[call]) = 3
    /\ puts[call][2] # definitions[call][2]

\* C14: for a batch of well-formed records the scan comes to its end (pending
\* list empty, main thread at the join) after finitely many steps of the main
\* thread alone, whether or not any Processor ever takes a step.
C14_ScanEndsWithoutWorkers ==
    \A c \in Calls : [](call = c /\ WellFormed(c) => <>ScanDone(c))

\* the scan of three records is over and no Processor has taken a step yet
C14_Witness ==
    /\ pc = "join"
    /\ Len(queue[call]) = 3
    /\ \A d \in ObjIds : objs[d].call = call => objs[d].state = "not started"
    /\ \A i \in 1..Len(daemons[call]) : Held(call, i) = 0

\* C15: the records of a well-formed batch are put on the queue in the order
\* in which they stand in the batch.
C15_PutOrderIsBatchOrder ==
    \A c \in Calls : WellFormed(c) => IsPrefix(puts[c], definitions[c])

\* C16: no step of the main thread (start a Processor, copy the list, while
\* test, scan step with its put and remove, join, next call) changes the
\* state, the currentStageIndex or anything else of a Definition that exists;
\* whenever a Definition's state or index changes, a Processor took the step.
C16_CoordinatorNeverWritesState ==
    [][/\ Coordinator =>
             /\ Len(objs') >= Len(objs)
             /\ \A d \in ObjIds : objs'[d] = objs[d]
       /\ (\E d \in ObjIds :
              \/ Len(objs') < d
              \/ objs'[d].state # objs[d].state
              \/ objs'[d].currentStageIndex # objs[d].currentStageIndex)
          => \E w \in Workers : Worker(w[1], w[2])]_vars

\* the scan is in its second pass while one Definition runs at its third
\* stage and another has failed
C16_Witness ==
    /\ pc = "for"
    /\ Len(puts[call]) = 2 /\ Len(definitions_list) = 1
    /\ \E d, e \in ObjIds :
          /\ objs[d].call = call /\ objs[d].state = "running"
          /\ objs[d].currentStageIndex = 2
          /\ objs[e].call = call /\ objs[e].state = "failed"

C18_PendingNeverDispatched ==
    \A k \in 1..Len(definitions_list) :
        /\ ObjsOf(call, definitions_list[k]) = {}
        /\ \A j \in 1..Len(puts[call]) : puts[call][j] # definitions_list[k]

\* a record is still pending while another Definition of the call has completed
C18_Witness ==
    /\ definitions_list # <<>>
    /\ pc \in {"while", "for"}
    /\ \E d \in ObjIds : objs[d].call = call /\ objs[d].state = "completed"

\* C19: every Definition put on a queue carries the pipeline of its kind (the
\* five alert tasks, or the five report tasks, in that order), of length at
\* least 1, and neither a Definition's pipeline nor the one written into its
\* raw record changes in any later step.
C19_PipelineFixedPerKind ==
    /\ [](\A d \in ObjIds :
            /\ objs[d].kind = TypeOf(objs[d].rec)
            /\ Len(objs[d].pipeline) >= 1
            /\ objs[d].kind = "alert" =>
                  objs[d].pipeline = <<"pull data", "process alerts", "persist alerts",
                                       "prepare alerts", "show results">>
            /\ objs[d].kind = "report" =>
                  objs[d].pipeline = <<"process benchmarks", "pull results",
                                       "analyze results", "prepare report", "show results">>)
    /\ [][/\ \A d \in ObjIds : Len(objs') >= d /\ objs'[d].pipeline = objs[d].pipeline
          /\ \A r \in RecIds :
                params[r].pipeline # <<>> => params'[r].pipeline = params[r].pipeline]_vars

\* two alerts of one call and a report of the next have all been put, and
\* the first alert has since completed
C19_Witness ==
    /\ call = 2
    /\ \E d, e, f \in ObjIds :
          /\ d # e /\ objs[d].kind = "alert" /\ objs[e].kind = "alert"
          /\ objs[d].state = "completed" /\ objs[e].pipeline = objs[d].pipeline
          /\ objs[f].kind = "report" /\ objs[f].state = "running"

\* C20: in a run of main the two calls neither overlap nor share a queue: as
\* long as a report Definition exists, every alert Definition is terminal and
\* signalled and every Processor of the first call is idle; the first call
\* only ever constructs, queues and holds alerts, the second only reports.
C20_CallsDoNotOverlap ==
    /\ (\E d \in ObjIds : objs[d].kind = "report") =>
          /\ Returned(1) /\ AllTerminal(1) /\ unfinished[1] = 0 /\ queue[1] = <<>>
          /\ \A i \in 1..Len(daemons[1]) : Held(1, i) = 0
    /\ \A d \in ObjIds : objs[d].call = (IF objs[d].kind = "alert" THEN 1 ELSE 2)
    /\ \A c \in Calls :
          /\ \A k \in 1..Len(queue[c]) : objs[queue[c][k]].call = c
          /\ \A i \in 1..Len(daemons[c]) : Held(c, i) # 0 => objs[Held(c, i)].call = c
          /\ \A j \in 1..Len(puts[c]) : TypeOf(puts[c][j]) = (IF c = 1 THEN "alert" ELSE "report")

\* a report runs in the second call, held by a Processor of that call, after
\* two alerts ended, one of them failed
C20_Witness ==
    /\ call = 2
    /\ Len(definitions[1]) = 2
    /\ \E d \in ObjIds : objs[d].kind = "alert" /\ objs[d].state = "failed"
    /\ \E i \in 1..Len(daemons[2]) :
          Held(2, i) # 0 /\ objs[Held(2, i)].kind = "report"
             /\ objs[Held(2, i)].state = "running"

====
